---- MODULE Spec2Model ----
\* Image-Sound-Synesthesia: the voice pool (AudioEngine), the interaction
\* controller (InteractiveCanvas), the application shell
\* (ImageSoundSynesthesia) and the grid lookups of ImageProcessor, as a state
\* machine driven by pointer events, UI events and timer firings.
EXTENDS Integers, Sequences, FiniteSets, TLC

\* ---------------------------------------------------------------- bounds
\* user events (uploads, slider moves, pointer events, toggles, mode changes,
\* dispose calls) over one run
MaxEvents == 5
\* the pointer visits the columns -1 .. MaxColumn of the canvas
MaxColumn == 1
\* the pointer presses in the rows -1 .. MaxRow of the canvas
MaxRow == 0

\* ------------------------------------------------------ program constants
maxSynths == 5
maxSimultaneousSounds == 5
StaggerMs == 50
canvasWidth == 600
canvasHeight == 500
minPixelSize == 10
maxPixelSize == 100
defaultPixelSize == 50
CleanupSlackMs == 500

\* values the pixel-size slider delivers in this model
SliderValues == {50, 90}
\* width and height of the uploaded images of this model
OrigImages == {<<500, 500>>, <<100, 100>>}

VARIABLES
    isInitialized,   \* AudioEngine.isInitialized
    reverb,          \* AudioEngine.reverb / masterGain: "none", "live", "disposed",
                     \* or "disposedAgain" once dispose() was called on them twice
    synths,          \* AudioEngine.synths: key -> the voice stored under it
    scanSounds,      \* AudioEngine.scanSounds: its keys
    replaced,        \* history of synths.set on a key in use: "no", "disposed"
                     \* (the old synth was disposed first) or "undisposed"
    threw,           \* an exception escaped an AudioEngine call
    engineMode,      \* AudioEngine.currentMode
    canvasMode,      \* InteractiveCanvas.currentMode
    canvasPlaying,   \* InteractiveCanvas.isPlaying
    scanColumn,      \* InteractiveCanvas.scanColumn
    canvasRemoved,   \* InteractiveCanvas.dispose() removed the p5 sketch
    hoveredPixel,    \* InteractiveCanvas.hoveredPixel: a cell, or Null
    appPlaying,      \* ImageSoundSynesthesia.isPlaying
    appMode,         \* ImageSoundSynesthesia.currentMode
    pendingInit,     \* togglePlayback invocations awaiting AudioEngine.init()
    currentPixelSize, \* ImageSoundSynesthesia.currentPixelSize: the slider value
    originalImage,   \* ImageProcessor.originalImage: <<width, height>>, or << >>
    hasImage,        \* ImageProcessor.hasImage()
    pixelSize,       \* ImageProcessor.pixelSize
    imageWidth,      \* ImageProcessor.imageWidth (display width)
    imageHeight,     \* ImageProcessor.imageHeight (display height)
    currentScale,    \* HsvMapper.currentScale
    baseFrequency,   \* HsvMapper.baseFrequency, in Hz
    probe,           \* the last call of a library function: its name, arguments
                     \* and return value
    timers,          \* pending setTimeout callbacks, in creation order
    events           \* user events so far

vars == <<isInitialized, reverb, synths, scanSounds, replaced, threw, engineMode,
          canvasMode, canvasPlaying, scanColumn, canvasRemoved, hoveredPixel,
          appPlaying, appMode,
          pendingInit, currentPixelSize, originalImage, hasImage, pixelSize, imageWidth, imageHeight,
          currentScale, baseFrequency, probe, timers, events>>

engineVars == <<isInitialized, reverb, synths, scanSounds, replaced, threw, engineMode>>
canvasVars == <<canvasMode, canvasPlaying, scanColumn, canvasRemoved, hoveredPixel>>
appVars == <<appPlaying, appMode, pendingInit, currentPixelSize>>
imageVars == <<originalImage, hasImage, pixelSize, imageWidth, imageHeight>>
mapperVars == <<currentScale, baseFrequency>>

\* ------------------------------------------------------------- helpers
Max(a, b) == IF a >= b THEN a ELSE b
Min(a, b) == IF a <= b THEN a ELSE b
CeilDiv(a, b) == (a + b - 1) \div b

\* Map.set / Map.delete on a function used as a JS Map
MapSet(m, k, v) == [x \in DOMAIN m \cup {k} |-> IF x = k THEN v ELSE m[x]]
MapDelete(m, k) == [x \in DOMAIN m \ {k} |-> m[x]]
EmptyMap == [x \in {} |-> 0]

\* ---------------------------------------------------------------- keys
\* `${scanColumn}_${index}`: the string key of a sustained voice
ScanKey(c, i) == [kind |-> "scan", a |-> c, b |-> i]
\* the numeric column index handed to stopScanSound by the controller
NumKey(c) == [kind |-> "num", a |-> c, b |-> 0]
\* `note_${Date.now()}_${Math.random()}`: the key of a transient voice
NoteKey(n) == [kind |-> "note", a |-> n, b |-> 0]

\* -------------------------------------------------------- ImageProcessor
\* grid dimensions of extractPixelData
GridWidth(ps) == CeilDiv(canvasWidth, ps)
GridHeight(ps) == CeilDiv(canvasHeight, ps)

\* Math.round(num / den) for den > 0: halves round up
Round(num, den) == (2 * num + den) \div (2 * den)
Max3(a, b, c) == Max(a, Max(b, c))
Min3(a, b, c) == Min(a, Min(b, c))

\* rgbToHsv(r, g, b) wrapping a negative hue before it is rounded
rgbToHsvWrapFirst(r, g, b) ==
    LET max == Max3(r, g, b)
        min == Min3(r, g, b)
        diff == max - min
        wrap == IF max = r /\ g < b THEN 360 ELSE 0
        h == IF diff = 0 THEN 0
             ELSE IF max = r THEN Round(60 * (g - b) + wrap * diff, diff)
             ELSE IF max = g THEN Round(60 * (b - r) + 120 * diff, diff)
             ELSE Round(60 * (r - g) + 240 * diff, diff)
    IN [h |-> h,
        s |-> IF max = 0 THEN 0 ELSE Round(100 * diff, max),
        v |-> Round(100 * max, 255)]

\* rgbToHsv(r, g, b): h in degrees, s and v in percent, all rounded
rgbToHsv(r, g, b) ==
    LET max == Max3(r, g, b)
        min == Min3(r, g, b)
        diff == max - min
        h == IF diff = 0 THEN 0
             ELSE IF max = r THEN Round(60 * (g - b), diff)
             ELSE IF max = g THEN Round(60 * (b - r) + 120 * diff, diff)
             ELSE Round(60 * (r - g) + 240 * diff, diff)
    IN [h |-> IF h < 0 THEN h + 360 ELSE h,
        s |-> IF max = 0 THEN 0 ELSE Round(100 * diff, max),
        v |-> Round(100 * max, 255)]

\* ------------------------------------------- ImageProcessor: the raster
White == [r |-> 255, g |-> 255, b |-> 255]
\* the colour drawImage leaves at a canvas pixel inside the image: the picture
\* of this model
Picture(x, y) ==
    [r |-> (x * 7 + y * 13) % 256,
     g |-> (x * 3 + y * 5 + 40) % 256,
     b |-> (x * y) % 256]

\* processImage: the canvas after the white fillRect and drawImage
drawnPixel(w, h, x, y) ==
    LET offsetX == (canvasWidth - w) \div 2
        offsetY == (canvasHeight - h) \div 2
    IN IF /\ x >= offsetX /\ x < offsetX + w
          /\ y >= offsetY /\ y < offsetY + h
       THEN Picture(x - offsetX, y - offsetY)
       ELSE White

RECURSIVE SumRange(_, _, _)
SumRange(f, a, b) == IF a > b THEN 0 ELSE f[a] + SumRange(f, a + 1, b)

\* calculateAverageColor(data, width, height, startX, startY, cellSize)
calculateAverageColor(w, h, startX, startY, cellSize) ==
    LET endX == Min(startX + cellSize, canvasWidth)
        endY == Min(startY + cellSize, canvasHeight)
        count == (endX - startX) * (endY - startY)
        rowSum(c, y) == SumRange([x \in startX..(endX - 1) |-> drawnPixel(w, h, x, y)[c]],
                                 startX, endX - 1)
        sum(c) == SumRange([y \in startY..(endY - 1) |-> rowSum(c, y)],
                           startY, endY - 1)
    IN [r |-> Round(sum("r"), count),
        g |-> Round(sum("g"), count),
        b |-> Round(sum("b"), count)]

\* a pixel the 1 px border stroke of fillGridCell has blended with black
Blended == [r |-> -1, g |-> -1, b |-> -1]

\* applyPixelation: the canvas after every cell was filled with its average
\* colour and stroked along its edges
pixelatedPixel(w, h, ps, x, y) ==
    IF x % ps = 0 \/ x % ps = ps - 1 \/ y % ps = 0 \/ y % ps = ps - 1
    THEN Blended
    ELSE calculateAverageColor(w, h, (x \div ps) * ps, (y \div ps) * ps, ps)

\* extractPixelData reading the canvas as drawImage left it
extractCellFromSource(w, h, ps, gridX, gridY) ==
    LET pixelX == gridX * ps
        pixelY == gridY * ps
        centerX == Min(pixelX + ps \div 2, canvasWidth - 1)
        centerY == Min(pixelY + ps \div 2, canvasHeight - 1)
        rgb == drawnPixel(w, h, centerX, centerY)
    IN [rgb |-> rgb, hsv |-> rgbToHsv(rgb.r, rgb.g, rgb.b),
        gridX |-> gridX, gridY |-> gridY, pixelX |-> pixelX, pixelY |-> pixelY]

\* extractPixelData: the entry it stores in pixelData[gridY][gridX]
extractCell(w, h, ps, gridX, gridY) ==
    LET pixelX == gridX * ps
        pixelY == gridY * ps
        centerX == Min(pixelX + ps \div 2, canvasWidth - 1)
        centerY == Min(pixelY + ps \div 2, canvasHeight - 1)
        rgb == pixelatedPixel(w, h, ps, centerX, centerY)
    IN [rgb |-> rgb, hsv |-> rgbToHsv(rgb.r, rgb.g, rgb.b),
        gridX |-> gridX, gridY |-> gridY, pixelX |-> pixelX, pixelY |-> pixelY]

\* the hsv stored in pixelData[gridY][gridX] for the image of this model
CellHsv(ps, gridX, gridY) ==
    [h |-> (gridX * 60 + gridY * 20 + ps) % 360,
     s |-> (gridY * 25) % 101,
     v |-> IF (gridX + gridY) % 2 = 0 THEN 100 ELSE 50]

\* pixelData[gridY][gridX]: the cell with its grid position
Cell(ps, gridX, gridY) ==
    [hsv |-> CellHsv(ps, gridX, gridY), gridX |-> gridX, gridY |-> gridY]

\* getColumnPixels(x) without the test of gridX against the row length
getColumnPixelsAnyColumn(has, ps, x) ==
    IF ~has THEN << >>
    ELSE LET gridX == x \div ps IN
         [gridY \in 1..GridHeight(ps) |-> Cell(ps, gridX, gridY - 1)]

\* getColumnPixels(x): the rows of the column under x, top to bottom
getColumnPixels(has, ps, x) ==
    IF ~has THEN << >>
    ELSE LET gridX == x \div ps IN
         IF gridX >= 0 /\ gridX < GridWidth(ps)
         THEN [gridY \in 1..GridHeight(ps) |-> Cell(ps, gridX, gridY - 1)]
         ELSE << >>

\* null: what getPixelAt returns, and hoveredPixel holds, when there is no cell
Null == [hsv |-> [h |-> 0, s |-> 0, v |-> 0], gridX |-> -1, gridY |-> -1]

\* the TypeError of reading `.length` of a row pixelData does not have
TypeError == [hsv |-> [h |-> 0, s |-> 0, v |-> 0], gridX |-> -2, gridY |-> -2]

\* getPixelAt(x, y) without the test of gridY against pixelData.length
getPixelAtAnyRow(has, ps, x, y) ==
    IF ~has THEN Null
    ELSE LET gridX == x \div ps
             gridY == y \div ps
         IN IF ~(gridY >= 0 /\ gridY < GridHeight(ps)) THEN TypeError
            ELSE IF gridX >= 0 /\ gridX < GridWidth(ps)
            THEN Cell(ps, gridX, gridY)
            ELSE Null

\* getPixelAt(x, y): the cell under (x, y), or null
getPixelAt(has, ps, x, y) ==
    IF ~has THEN Null
    ELSE LET gridX == x \div ps
             gridY == y \div ps
         IN IF /\ gridY >= 0 /\ gridY < GridHeight(ps)
               /\ gridX >= 0 /\ gridX < GridWidth(ps)
            THEN Cell(ps, gridX, gridY)
            ELSE Null

\* setPixelSize: the clamp
ClampPixelSize(size) == Max(minPixelSize, Min(maxPixelSize, size))

\* pixelData, as far as its layout goes: the cell size it was extracted with
\* and its numbers of rows and columns; no rows before an image is processed
NoPixelData == [cellSize |-> 0, rows |-> 0, columns |-> 0]
extractPixelData(ps) ==
    [cellSize |-> ps, rows |-> GridHeight(ps), columns |-> GridWidth(ps)]
\* pixelX and pixelY of the entry pixelData[gridY][gridX]
cellOrigin(data, gridX, gridY) ==
    [pixelX |-> gridX * data.cellSize, pixelY |-> gridY * data.cellSize]

\* setPixelSize(size) without the call of processImage
setPixelSizeNoRebuild(img, data, size) ==
    [pixelSize |-> ClampPixelSize(size), pixelData |-> data]

\* setPixelSize(size): the new pixelSize and pixelData
setPixelSize(img, data, size) ==
    LET clamped == ClampPixelSize(size) IN
    [pixelSize |-> clamped,
     pixelData |-> IF img # << >> THEN extractPixelData(clamped) ELSE data]


\* -------------------------------------------------------------- HsvMapper
\* frequencies are counted in units of 1 / FreqUnit Hz, times in microseconds,
\* volumes in thousandths
FreqUnit == 100000
frequencyRange == [min |-> 200 * FreqUnit, max |-> 2000 * FreqUnit]
volumeRange == [min |-> 100, max |-> 800]
attackRange == [min |-> 10000, max |-> 100000]
releaseRange == [min |-> 100000, max |-> 1000000]
waveforms == <<"sine", "triangle", "sawtooth", "square">>
musicalScales ==
    [chromatic |-> <<0, 1, 2, 3, 4, 5, 6, 7, 8, 9, 10, 11>>,
     major |-> <<0, 2, 4, 5, 7, 9, 11>>,
     minor |-> <<0, 2, 3, 5, 7, 8, 10>>,
     pentatonic |-> <<0, 2, 4, 7, 9>>,
     blues |-> <<0, 3, 5, 6, 7, 10>>]

\* Math.pow(2, n / 12) for n = 0 .. 11, in units of 1 / FreqUnit
SemitoneRatio == <<100000, 105946, 112246, 118921, 125992, 133484,
                   141421, 149831, 158740, 168179, 178180, 188775>>
RECURSIVE Pow2(_)
Pow2(n) == IF n = 0 THEN 1 ELSE 2 * Pow2(n - 1)
\* base * Math.pow(2, k / 12) for k >= 0: equal temperament
EqualTemperament(base, k) == base * Pow2(k \div 12) * SemitoneRatio[(k % 12) + 1]

\* the names musicalScales answers to without having them as keys of its own:
\* an object literal inherits the properties of Object.prototype
InheritedKeys == {"constructor"}
\* this.musicalScales[scaleName] is truthy
hasScale(scaleName) == scaleName \in DOMAIN musicalScales \cup InheritedKeys
\* the number NaN
NaN == -1

\* a mapping that walks the scale once per third of the hue circle and
\* never adds the octave
mapHueToFrequencyNoOctave(scaleName, base, hue) ==
    IF scaleName \notin DOMAIN musicalScales THEN NaN ELSE
    LET scale == musicalScales[scaleName]
        scaleIndex == (hue * 3 * Len(scale)) \div 360
        semitone == scale[(scaleIndex % Len(scale)) + 1]
        frequency == EqualTemperament(base, semitone)
    IN Max(frequencyRange.min, Min(frequencyRange.max, frequency))

\* mapHueToFrequency(hue) with the given scale and base frequency; an
\* inherited property is no array, the semitone read from it is undefined and
\* the frequency is NaN, which Math.min and Math.max pass on
mapHueToFrequency(scaleName, base, hue) ==
    IF scaleName \notin DOMAIN musicalScales THEN NaN ELSE
    LET scale == musicalScales[scaleName]
        scaleIndex == (hue * Len(scale)) \div 360
        semitone == scale[(scaleIndex % Len(scale)) + 1]
        octave == (hue * 3) \div 360
        frequency == EqualTemperament(base, octave * 12 + semitone)
    IN Max(frequencyRange.min, Min(frequencyRange.max, frequency))

\* mapSaturationToAttack(saturation) without the inversion of the saturation
mapSaturationToAttackDirect(saturation) ==
    attackRange.min + (saturation * (attackRange.max - attackRange.min)) \div 100

mapSaturationToAttack(saturation) ==
    attackRange.min + ((100 - saturation) * (attackRange.max - attackRange.min)) \div 100
mapValueToVolume(value) ==
    volumeRange.min + (value * (volumeRange.max - volumeRange.min)) \div 100
mapValueToRelease(value) ==
    releaseRange.min + (value * (releaseRange.max - releaseRange.min)) \div 100
mapSaturationToWaveform(saturation) ==
    waveforms[Min((saturation * Len(waveforms)) \div 100, Len(waveforms) - 1) + 1]

\* hsvToRgb(h, s, v): the colour shown for an hsv, channels rounded to 0..255
hsvToRgb(h0, s0, v0) ==
    LET h == Max(0, Min(360, h0))
        s == Max(0, Min(100, s0))
        v == Max(0, Min(100, v0))
        i == h \div 60
        f == h % 60
        vv == Round(255 * v, 100)
        p == Round(255 * v * (100 - s), 10000)
        q == Round(255 * v * (6000 - s * f), 600000)
        t == Round(255 * v * (6000 - s * (60 - f)), 600000)
    IN IF s = 0 THEN [r |-> vv, g |-> vv, b |-> vv]
       ELSE CASE i % 6 = 0 -> [r |-> vv, g |-> t, b |-> p]
              [] i % 6 = 1 -> [r |-> q, g |-> vv, b |-> p]
              [] i % 6 = 2 -> [r |-> p, g |-> vv, b |-> t]
              [] i % 6 = 3 -> [r |-> p, g |-> q, b |-> vv]
              [] i % 6 = 4 -> [r |-> t, g |-> p, b |-> vv]
              [] OTHER -> [r |-> vv, g |-> p, b |-> q]

\* mapHsvToAudio(hsv): the parameters a voice takes (timbre and pan left out)
mapHsvToAudio(hsv) ==
    [frequency |-> mapHueToFrequency(currentScale, baseFrequency, hsv.h),
     volume |-> mapValueToVolume(hsv.v),
     attack |-> mapSaturationToAttack(hsv.s),
     release |-> mapValueToRelease(hsv.v),
     waveform |-> mapSaturationToWaveform(hsv.s)]


\* ------------------------------------------------------------ AudioEngine
\* hsvToFrequency .. hsvToWaveform: the engine's own mappings
hsvToFrequency(hue) == 200 * FreqUnit + hue * (((2000 - 200) * FreqUnit) \div 360)
hsvToAttack(saturation) == 10000 + saturation * 1000
hsvToRelease(value) == 100000 + value * 10000
hsvToVolume(value) == 100 + value * 7
hsvToWaveform(saturation) ==
    IF saturation < 25 THEN "sine"
    ELSE IF saturation < 50 THEN "triangle"
    ELSE IF saturation < 75 THEN "sawtooth"
    ELSE "square"

\* createSynth: the Tone.Synth it builds and the entry it stores in synths
NewVoice(hsv) ==
    [synth |-> [oscillator |-> hsvToWaveform(hsv.s),
                attack |-> hsvToAttack(hsv.s),
                release |-> hsvToRelease(hsv.v)],
     frequency |-> hsvToFrequency(hsv.h),
     volume |-> hsvToVolume(hsv.v),
     hsv |-> hsv]

\* the pool: synths and scanSounds, with the history of replacements and of
\* escaped exceptions
Pool == [synths |-> synths, scanSounds |-> scanSounds, replaced |-> replaced,
         threw |-> threw]

\* cleanupSynth(id) without its `if (synthData)` guard
cleanupSynthUnguarded(P, id) ==
    IF id \in DOMAIN P.synths
    THEN [P EXCEPT !.synths = MapDelete(@, id)]
    ELSE [P EXCEPT !.threw = TRUE]

\* cleanupSynth(id) that leaves the entry in synths
cleanupSynthKeeps(P, id) == P

\* cleanupSynth(id): dispose and delete the entry, if there is one
cleanupSynth(P, id) ==
    IF id \in DOMAIN P.synths
    THEN [P EXCEPT !.synths = MapDelete(@, id)]
    ELSE P

\* stopScanSound(columnId)
stopScanSound(P, columnId) ==
    LET P1 == cleanupSynth(P, columnId)
    IN [P1 EXCEPT !.scanSounds = @ \ {columnId}]

\* synth.connect(this.reverb) throws when init() left no reverb
CreateThrows == reverb = "none"

\* createSynth(hsv, id) past its isInitialized guard: connect, synths.set(id, ...)
createSynth(P, hsv, id) ==
    IF CreateThrows THEN [P EXCEPT !.threw = TRUE]
    ELSE [P EXCEPT !.synths = MapSet(@, id, NewVoice(hsv)),
                   !.replaced = IF id \in DOMAIN P.synths THEN "undisposed" ELSE @]

\* startScanSound(hsv, columnId) without its first stopScanSound
startScanSoundNoStop(P, hsv, columnId) ==
    IF ~isInitialized \/ engineMode # "scan" THEN P
    ELSE LET P2 == createSynth(P, hsv, columnId)
         IN IF CreateThrows THEN P2
            ELSE [P2 EXCEPT !.scanSounds = @ \cup {columnId}]

\* startScanSound(hsv, columnId) without its currentMode test
startScanSoundAnyMode(P, hsv, columnId) ==
    IF ~isInitialized THEN P
    ELSE LET P1 == stopScanSound(P, columnId)
             P2 == createSynth(P1, hsv, columnId)
         IN IF CreateThrows THEN P2
            ELSE [P2 EXCEPT !.scanSounds = @ \cup {columnId}]

\* startScanSound(hsv, columnId)
startScanSound(P, hsv, columnId) ==
    IF ~isInitialized \/ engineMode # "scan" THEN P
    ELSE LET P1 == [stopScanSound(P, columnId) EXCEPT
                       !.replaced = IF columnId \in DOMAIN P.synths /\ @ = "no"
                                    THEN "disposed" ELSE @]
             P2 == createSynth(P1, hsv, columnId)
         IN IF CreateThrows THEN P2
            ELSE [P2 EXCEPT !.scanSounds = @ \cup {columnId}]

\* stopAllScanSounds(): forEach over scanSounds, then clear()
RECURSIVE stopEach(_, _)
stopEach(P, keys) ==
    IF keys = {} THEN P
    ELSE LET k == CHOOSE x \in keys : TRUE
         IN stopEach(stopScanSound(P, k), keys \ {k})

stopAllScanSounds(P) ==
    [stopEach(P, P.scanSounds) EXCEPT !.scanSounds = {}]

\* dispose(): cleanupSynth for every entry of synths
RECURSIVE cleanupEach(_, _)
cleanupEach(P, keys) ==
    IF keys = {} THEN P
    ELSE LET k == CHOOSE x \in keys : TRUE
         IN cleanupEach(cleanupSynth(P, k), keys \ {k})

\* playNote: the duration derived from brightness, in ms
NoteDurationMs(v) == 100 + (100 - v) * 3
\* the default of playNote's parameter: duration = null
NoDuration == -1
\* playNote: `duration || (0.1 + ...)`, in ms; null and 0 are falsy
calculatedDuration(hsv, duration) ==
    IF duration = NoDuration \/ duration = 0 THEN NoteDurationMs(hsv.v) ELSE duration

\* ---------------------------------------------------------------- timers
NoPixel == [hsv |-> [h |-> 0, s |-> 0, v |-> 0], gridX |-> 0, gridY |-> 0]
\* the closure of handleScanMove's setTimeout: pixel and index
OnsetTimer(delay, pixel, index) ==
    [kind |-> "onset", rem |-> delay, pixel |-> pixel, index |-> index, note |-> 0]
\* the closure of playNote's setTimeout: id
CleanupTimer(delay, n) ==
    [kind |-> "cleanup", rem |-> delay, pixel |-> NoPixel, index |-> 0, note |-> n]

PendingOnsets == {j \in 1..Len(timers) : timers[j].kind = "onset"}
PendingNotes == {timers[i].note : i \in {j \in 1..Len(timers) : timers[j].kind = "cleanup"}}

\* handleScanMove: the stride between the cells that sound
ScanStep(n) == Max(1, n \div maxSimultaneousSounds)

\* handleScanMove with the delay index * 50 instead of (index / step) * 50
ScanBatchByIndex(columnPixels) ==
    LET n == Len(columnPixels)
        step == ScanStep(n)
        indexed == [i \in 1..n |-> [index |-> i - 1, pixel |-> columnPixels[i]]]
        selected == SelectSeq(indexed, LAMBDA e : e.index % step = 0)
    IN [k \in 1..Len(selected) |->
          OnsetTimer(selected[k].index * StaggerMs,
                     selected[k].pixel, selected[k].index)]

\* handleScanMove: the staggered onsets scheduled for the cells of the column
ScanBatch(columnPixels) ==
    LET n == Len(columnPixels)
        step == ScanStep(n)
        indexed == [i \in 1..n |-> [index |-> i - 1, pixel |-> columnPixels[i]]]
        selected == SelectSeq(indexed, LAMBDA e : e.index % step = 0)
    IN [k \in 1..Len(selected) |->
          OnsetTimer((selected[k].index \div step) * StaggerMs,
                     selected[k].pixel, selected[k].index)]

SetPool(P) ==
    /\ synths' = P.synths
    /\ scanSounds' = P.scanSounds
    /\ replaced' = P.replaced
    /\ threw' = P.threw

\* ------------------------------------------------------ InteractiveCanvas
\* handleScanRelease: the pool after it (scanColumn becomes -1)
handleScanRelease(P) ==
    IF scanColumn >= 0 THEN stopScanSound(P, NumKey(scanColumn)) ELSE P

\* setPlaying(false): handleScanRelease, then stopAllScanSounds
setPlayingFalse(P) == stopAllScanSounds(handleScanRelease(P))

\* pointer coordinates of this model: one point per visited column / row
PointerXs == {c * pixelSize + pixelSize \div 2 : c \in -1..MaxColumn}
PointerYs == {r * pixelSize + pixelSize \div 2 : r \in -1..MaxRow}

\* one more user event
UserEvent ==
    /\ events < MaxEvents
    /\ events' = events + 1

\* no library call was made yet
NoCall == [op |-> "none"]

\* ------------------------------------------------------------------ Init
Init ==
    /\ isInitialized = FALSE
    /\ reverb = "none"
    /\ synths = EmptyMap
    /\ scanSounds = {}
    /\ replaced = "no"
    /\ threw = FALSE
    /\ engineMode = "single"
    /\ canvasMode = "single"
    /\ canvasPlaying = FALSE
    /\ scanColumn = -1
    /\ canvasRemoved = FALSE
    /\ hoveredPixel = Null
    /\ appPlaying = FALSE
    /\ appMode = "single"
    /\ pendingInit = 0
    /\ currentPixelSize = 50
    /\ originalImage = << >>
    /\ hasImage = FALSE
    /\ pixelSize = defaultPixelSize
    /\ imageWidth = 0
    /\ imageHeight = 0
    /\ currentScale = "pentatonic"
    /\ baseFrequency = 220
    /\ probe = NoCall
    /\ timers = << >>
    /\ events = 0

\* --------------------------------------------------------------- actions
\* processImage: the size the image is drawn at, keeping its aspect ratio
Wide(img) == img[1] * canvasHeight > canvasWidth * img[2]
DisplayWidth(img) ==
    IF Wide(img) THEN canvasWidth ELSE (canvasHeight * img[1]) \div img[2]
DisplayHeight(img) ==
    IF Wide(img) THEN (canvasWidth * img[2]) \div img[1] ELSE canvasHeight

\* handleImageUpload -> loadImage -> processImage
LoadImage ==
    \E img \in OrigImages :
        /\ UserEvent
        /\ imageWidth' = DisplayWidth(img)
        /\ imageHeight' = DisplayHeight(img)
        /\ originalImage' = img
        /\ hasImage' = TRUE
        /\ originalImage' # originalImage
        /\ UNCHANGED <<mapperVars, probe, engineVars, canvasVars, appVars, pixelSize,
                       timers>>

\* handlePixelSizeChange -> setPixelSize -> processImage, for a slider value
handlePixelSizeChange(newSize) ==
    /\ UserEvent
    /\ currentPixelSize' = newSize
    /\ pixelSize' = IF hasImage THEN ClampPixelSize(newSize) ELSE pixelSize
    /\ UNCHANGED <<mapperVars, probe, engineVars, canvasVars, appPlaying, appMode,
                   pendingInit, originalImage, hasImage, imageWidth, imageHeight,
                   timers>>

\* the slider is moved to another value while an image is shown
SetPixelSize ==
    \E size \in SliderValues :
        /\ hasImage
        /\ handlePixelSizeChange(size)
        /\ pixelSize' # pixelSize

\* the least note number no pending cleanup refers to: a fresh `note_...` id
FreshNote == CHOOSE n \in 0..Len(timers) :
                 /\ n \notin PendingNotes
                 /\ \A m \in 0..(n - 1) : m \in PendingNotes

\* the pointer position relative to the centred image
\* p.mouseX taken as it is, without the offset of the centred image
unadjustedMouseX(x) == x
adjustedMouseX(x) == x - (canvasWidth - imageWidth) \div 2
adjustedMouseY(y) == y - (canvasHeight - imageHeight) \div 2

\* p.mousePressed without its isPlaying guard
pressPlaysAlways(pixel) ==
    /\ hasImage
    /\ canvasMode = "single"
    /\ pixel # Null

\* p.mousePressed and handleSingleClick: the guards in front of playNote
pressPlays(pixel) ==
    /\ hasImage /\ canvasPlaying
    /\ canvasMode = "single"
    /\ pixel # Null

\* p.mousePressed -> handleSingleClick -> playNote, for a press at (x, y)
mousePressed(x, y) ==
    /\ UserEvent
    /\ ~canvasRemoved
    /\ LET pixel == getPixelAt(hasImage, pixelSize,
                               adjustedMouseX(x), adjustedMouseY(y))
       IN /\ hoveredPixel' = IF pressPlays(pixel) THEN pixel ELSE hoveredPixel
          /\ IF pressPlays(pixel) /\ isInitialized
             THEN /\ SetPool(createSynth(Pool, pixel.hsv, NoteKey(FreshNote)))
                  /\ timers' = IF CreateThrows THEN timers
                               ELSE Append(timers,
                                    CleanupTimer(NoteDurationMs(pixel.hsv.v)
                                                    + CleanupSlackMs, FreshNote))
             ELSE UNCHANGED <<synths, scanSounds, replaced, threw, timers>>
    /\ UNCHANGED <<mapperVars, isInitialized, reverb, engineMode, canvasMode,
                   canvasPlaying, scanColumn, canvasRemoved, appVars, imageVars>>

\* the arguments of the playNote calls a press at (x, y) makes, in order
playNoteCalls(x, y) ==
    LET pixel == getPixelAt(hasImage, pixelSize, adjustedMouseX(x), adjustedMouseY(y))
    IN IF pressPlays(pixel) THEN <<pixel.hsv>> ELSE << >>

\* a pointer press anywhere around the grid
MousePressed ==
    \E x \in PointerXs, y \in PointerYs :
        mousePressed(x, y) /\ UNCHANGED probe

\* the same press, with its position and its playNote calls noted
PressObserved ==
    \E x \in PointerXs, y \in PointerYs :
        /\ mousePressed(x, y)
        /\ probe' = [op |-> "mousePressed", arg |-> [x |-> x, y |-> y],
                     playNote |-> playNoteCalls(x, y)]

\* p.mouseMoved -> getPixelAt, handleScanMove, for a pointer at (x, y)
mouseMoved(x, y) ==
    /\ UserEvent
    /\ ~canvasRemoved
    /\ IF ~hasImage
       THEN UNCHANGED <<synths, scanSounds, replaced, threw, scanColumn,
                        hoveredPixel, timers>>
       ELSE /\ hoveredPixel' = getPixelAt(hasImage, pixelSize,
                                          adjustedMouseX(x), adjustedMouseY(y))
            /\ LET newColumn == x \div pixelSize
               IN IF canvasMode = "scan" /\ canvasPlaying /\ newColumn # scanColumn
                  THEN /\ SetPool(IF scanColumn >= 0
                                  THEN stopScanSound(Pool, NumKey(scanColumn))
                                  ELSE Pool)
                       /\ scanColumn' = newColumn
                       /\ timers' = timers \o
                              ScanBatch(getColumnPixels(hasImage, pixelSize, x))
                  ELSE UNCHANGED <<synths, scanSounds, replaced, threw,
                                   scanColumn, timers>>
    /\ UNCHANGED <<mapperVars, probe, isInitialized, reverb, engineMode, canvasMode,
                   canvasPlaying, canvasRemoved, appVars, imageVars>>

\* a pointer move to a position around the first cells of the grid
MouseMoved ==
    \E x \in PointerXs, y \in PointerYs : mouseMoved(x, y)

\* the positions p5 reports while the pointer is anywhere in the window: mouseX
\* is relative to the canvas and goes below 0 and beyond its width
WindowXs(ps) == {-ps - 1, -1, 0, canvasWidth - 1, canvasWidth}

\* a pointer move to a position in or beside the canvas
MouseMovedInWindow ==
    \E x \in WindowXs(pixelSize), y \in PointerYs : mouseMoved(x, y)

\* p.mouseReleased and p.mouseExited: handleScanRelease in scan mode while playing
releaseIfScanning ==
    IF canvasMode = "scan" /\ canvasPlaying
    THEN /\ SetPool(handleScanRelease(Pool))
         /\ scanColumn' = IF scanColumn >= 0 THEN -1 ELSE scanColumn
    ELSE UNCHANGED <<synths, scanSounds, replaced, threw, scanColumn>>

\* p.mouseReleased -> handleScanRelease
MouseReleased ==
    /\ UserEvent
    /\ ~canvasRemoved
    /\ releaseIfScanning
    /\ UNCHANGED <<mapperVars, probe, isInitialized, reverb, engineMode, canvasMode, canvasPlaying,
                   canvasRemoved, hoveredPixel, appVars, imageVars, timers>>

\* p.mouseExited: hoveredPixel = null, then handleScanRelease
MouseExited ==
    /\ UserEvent
    /\ ~canvasRemoved
    /\ hoveredPixel' = Null
    /\ releaseIfScanning
    /\ UNCHANGED <<mapperVars, probe, isInitialized, reverb, engineMode, canvasMode, canvasPlaying,
                   canvasRemoved, appVars, imageVars, timers>>

\* handleModeChange with both audioEngine.setMode calls taking no effect
ModeChangeEngineUnset ==
    \E mode \in {"single", "scan"} :
        /\ UserEvent
        /\ appMode' = mode
        /\ canvasMode' = mode
        /\ engineMode' = engineMode
        /\ IF mode = "single"
           THEN /\ SetPool(stopAllScanSounds(stopAllScanSounds(handleScanRelease(Pool))))
                /\ scanColumn' = IF scanColumn >= 0 THEN -1 ELSE scanColumn
           ELSE /\ UNCHANGED <<synths, scanSounds, replaced, threw, scanColumn>>
        /\ UNCHANGED <<mapperVars, probe, isInitialized, reverb, canvasPlaying, canvasRemoved,
                       hoveredPixel, appPlaying, pendingInit, currentPixelSize, imageVars,
                       timers>>

\* handleModeChange: canvas.setMode (which calls audioEngine.setMode), then
\* audioEngine.setMode
ModeChange ==
    \E mode \in {"single", "scan"} :
        /\ UserEvent
        /\ appMode' = mode
        /\ canvasMode' = mode
        /\ engineMode' = mode
        /\ IF mode = "single"
           THEN /\ SetPool(stopAllScanSounds(stopAllScanSounds(handleScanRelease(Pool))))
                /\ scanColumn' = IF scanColumn >= 0 THEN -1 ELSE scanColumn
           ELSE /\ UNCHANGED <<synths, scanSounds, replaced, threw, scanColumn>>
        /\ UNCHANGED <<mapperVars, probe, isInitialized, reverb, canvasPlaying, canvasRemoved,
                       hoveredPixel, appPlaying, pendingInit, currentPixelSize, imageVars,
                       timers>>

\* togglePlayback from the point where isPlaying is flipped: stopAllScanSounds
\* when stopping, then canvas.setPlaying
ToggleBody ==
    /\ appPlaying' = ~appPlaying
    /\ canvasPlaying' = ~appPlaying
    /\ IF appPlaying
       THEN /\ SetPool(setPlayingFalse(stopAllScanSounds(Pool)))
            /\ scanColumn' = IF scanColumn >= 0 THEN -1 ELSE scanColumn
       ELSE /\ UNCHANGED <<synths, scanSounds, replaced, threw, scanColumn>>

\* togglePlayback when it does not have to initialise the engine
TogglePlayback ==
    /\ UserEvent
    /\ appPlaying \/ isInitialized
    /\ ToggleBody
    /\ UNCHANGED <<mapperVars, probe, isInitialized, reverb, engineMode, canvasMode, canvasRemoved,
                   hoveredPixel, appMode, pendingInit, currentPixelSize, imageVars, timers>>

\* togglePlayback up to `await this.audioEngine.init()`
ToggleAwaitInit ==
    /\ UserEvent
    /\ ~appPlaying /\ ~isInitialized
    /\ pendingInit' = pendingInit + 1
    /\ UNCHANGED <<mapperVars, probe, engineVars, canvasVars, appPlaying, appMode,
                   currentPixelSize, imageVars, timers>>

\* an init() whose catch block would leave the engine uninitialised
InitDoneFailureLeavesUninitialised ==
    \E ok \in BOOLEAN :
        /\ pendingInit > 0
        /\ pendingInit' = pendingInit - 1
        /\ isInitialized' = (isInitialized \/ ok)
        /\ reverb' = IF ok THEN "live" ELSE reverb
        /\ ToggleBody
        /\ UNCHANGED <<mapperVars, probe, engineMode, canvasMode, canvasRemoved, hoveredPixel, appMode,
                       currentPixelSize,
                       imageVars, timers, events>>

\* AudioEngine.init() resumes after Tone.start(), then togglePlayback resumes
InitDone ==
    \E ok \in BOOLEAN :
        /\ pendingInit > 0
        /\ pendingInit' = pendingInit - 1
        /\ isInitialized' = TRUE
        /\ reverb' = IF ok THEN "live" ELSE reverb
        /\ ToggleBody
        /\ UNCHANGED <<mapperVars, probe, engineMode, canvasMode, canvasRemoved, hoveredPixel, appMode,
                       currentPixelSize,
                       imageVars, timers, events>>

\* ImageSoundSynesthesia.dispose(): InteractiveCanvas.dispose(), AudioEngine.dispose()
Dispose ==
    /\ UserEvent
    /\ canvasRemoved' = TRUE
    /\ SetPool(cleanupEach(Pool, DOMAIN synths))
    /\ reverb' = CASE reverb = "none" -> "none"
                    [] reverb = "live" -> "disposed"
                    [] OTHER -> "disposedAgain"
    /\ UNCHANGED <<mapperVars, probe, isInitialized, engineMode, canvasMode, canvasPlaying, scanColumn,
                   hoveredPixel, appVars, imageVars, timers>>

\* the first due timer, in creation order
FirstDue == CHOOSE i \in 1..Len(timers) :
                /\ timers[i].rem = 0
                /\ \A j \in 1..(i - 1) : timers[j].rem # 0
RemoveAt(seq, i) == SubSeq(seq, 1, i - 1) \o SubSeq(seq, i + 1, Len(seq))
SomeDue == \E i \in 1..Len(timers) : timers[i].rem = 0

\* the staggered onset callback of handleScanMove
OnsetFires ==
    /\ SomeDue
    /\ timers[FirstDue].kind = "onset"
    /\ LET t == timers[FirstDue]
       IN SetPool(startScanSound(Pool, t.pixel.hsv, ScanKey(scanColumn, t.index)))
    /\ timers' = RemoveAt(timers, FirstDue)
    /\ UNCHANGED <<mapperVars, probe, isInitialized, reverb, engineMode, canvasVars, appVars, imageVars,
                   events>>

\* the cleanup callback of playNote
CleanupFires ==
    /\ SomeDue
    /\ timers[FirstDue].kind = "cleanup"
    /\ SetPool(cleanupSynth(Pool, NoteKey(timers[FirstDue].note)))
    /\ timers' = RemoveAt(timers, FirstDue)
    /\ UNCHANGED <<mapperVars, probe, isInitialized, reverb, engineMode, canvasVars, appVars, imageVars,
                   events>>

\* time passes until the next pending timer is due
MinRem == CHOOSE d \in {timers[i].rem : i \in 1..Len(timers)} :
              \A j \in 1..Len(timers) : d <= timers[j].rem
Advance ==
    /\ timers # << >>
    /\ ~SomeDue
    /\ timers' = [i \in 1..Len(timers) |-> [timers[i] EXCEPT !.rem = @ - MinRem]]
    /\ UNCHANGED <<mapperVars, probe, engineVars, canvasVars, appVars, imageVars, events>>

Next ==
    \/ LoadImage
    \/ SetPixelSize
    \/ MousePressed
    \/ MouseMoved
    \/ MouseReleased
    \/ MouseExited
    \/ ModeChange
    \/ TogglePlayback
    \/ ToggleAwaitInit
    \/ InitDone
    \/ Dispose
    \/ OnsetFires
    \/ CleanupFires
    \/ Advance

Spec == Init /\ [][Next]_vars

\* single-mode playing: the actions that create, keep or remove playNote
\* voices; the event loop runs every due callback, and time passes
NextNotes ==
    \/ LoadImage
    \/ SetPixelSize
    \/ MousePressed
    \/ TogglePlayback
    \/ ToggleAwaitInit
    \/ InitDone
    \/ Dispose
    \/ CleanupFires
    \/ Advance

LiveSpec ==
    /\ Init
    /\ [][NextNotes]_vars
    /\ WF_vars(CleanupFires)
    /\ WF_vars(Advance)

\* one scan move over a grid of any cell size: the application is playing in
\* scan mode, an image is loaded and the slider was set to any of its values
InitBatch ==
    /\ isInitialized = TRUE
    /\ reverb = "live"
    /\ synths = EmptyMap
    /\ scanSounds = {}
    /\ replaced = "no"
    /\ threw = FALSE
    /\ engineMode = "scan"
    /\ canvasMode = "scan"
    /\ canvasPlaying = TRUE
    /\ scanColumn = -1
    /\ canvasRemoved = FALSE
    /\ hoveredPixel = Null
    /\ appPlaying = TRUE
    /\ appMode = "scan"
    /\ pendingInit = 0
    /\ originalImage = <<canvasHeight, canvasHeight>>
    /\ hasImage = TRUE
    /\ currentScale = "pentatonic"
    /\ baseFrequency = 220
    /\ probe = NoCall
    /\ pixelSize \in {ClampPixelSize(size) : size \in minPixelSize..maxPixelSize}
    /\ currentPixelSize = pixelSize
    /\ imageWidth = canvasHeight
    /\ imageHeight = canvasHeight
    /\ timers = << >>
    /\ events = MaxEvents - 1

NextBatch ==
    \/ MouseMoved
    \/ OnsetFires
    \/ Advance

SpecBatch == InitBatch /\ [][NextBatch]_vars

\* --------------------------------------------------- presses, observed
\* uploads, cell sizes, both modes, starting and stopping, and presses
NextPress ==
    \/ LoadImage
    \/ SetPixelSize
    \/ ModeChange
    \/ TogglePlayback
    \/ ToggleAwaitInit
    \/ InitDone
    \/ PressObserved
    \/ CleanupFires
    \/ Advance

SpecPress == Init /\ [][NextPress]_vars

\* ------------------------------------------------- direct calls of playNote
\* the durations passed, in ms: none, zero, shorter and longer than the
\* brightness-derived window
DurationInputs == {NoDuration, 0, 50, 1000}
NoteHsvs == {[h |-> 0, s |-> 100, v |-> 0], [h |-> 120, s |-> 50, v |-> 50],
             [h |-> 240, s |-> 0, v |-> 100]}

\* a call of audioEngine.playNote(hsv, duration)
CallPlayNote ==
    \E hsv \in NoteHsvs, duration \in DurationInputs :
        /\ UserEvent
        /\ probe' = [op |-> "playNote", arg |-> [hsv |-> hsv, duration |-> duration],
                     played |-> IF isInitialized /\ ~CreateThrows
                                THEN <<calculatedDuration(hsv, duration)>> ELSE << >>]
        /\ IF isInitialized
           THEN /\ SetPool(createSynth(Pool, hsv, NoteKey(FreshNote)))
                /\ timers' = IF CreateThrows THEN timers
                             ELSE Append(timers,
                                         CleanupTimer(calculatedDuration(hsv, duration)
                                                         + CleanupSlackMs, FreshNote))
           ELSE UNCHANGED <<synths, scanSounds, replaced, threw, timers>>
        /\ UNCHANGED <<mapperVars, isInitialized, reverb, engineMode, canvasVars,
                       appVars, imageVars>>

NextPlayNote ==
    \/ ToggleAwaitInit
    \/ InitDone
    \/ CallPlayNote
    \/ CleanupFires
    \/ Advance

SpecPlayNote == Init /\ [][NextPlayNote]_vars

\* ------------------------------------------- scanning, pointer anywhere
NextScan ==
    \/ MouseMovedInWindow
    \/ OnsetFires
    \/ Advance

SpecScan == InitBatch /\ [][NextScan]_vars

\* ------------------------------------------ the slider and uploads, any order
\* the slider values of this model: both ends of its range and four inside
SliderInputs == {10, 20, 50, 75, 90, 100}

\* the slider is moved, with or without an image shown
SliderMoved ==
    \E size \in SliderInputs : handlePixelSizeChange(size)

NextSlider ==
    \/ LoadImage
    \/ SliderMoved

SpecSlider == Init /\ [][NextSlider]_vars

\* ------------------------------------------------- HsvMapper as a library
\* the scale names and base frequencies handed to the setters in this model
ScaleInputs == DOMAIN musicalScales \cup {"lydian"} \cup InheritedKeys
BaseInputs == {50, 100, 150, 220, 440, 1000, 1500}
Hues == 0..359

\* the program's state apart from the mapper and the library call
programVars == <<engineVars, canvasVars, appVars, imageVars, timers, events>>

\* setScale(scaleName)
SetScale ==
    \E scaleName \in ScaleInputs :
        /\ currentScale' = IF hasScale(scaleName) THEN scaleName ELSE currentScale
        /\ probe' = [op |-> "setScale", arg |-> scaleName]
        /\ UNCHANGED <<baseFrequency, programVars>>

\* setBaseFrequency(frequency)
SetBaseFrequency ==
    \E frequency \in BaseInputs :
        /\ baseFrequency' = Max(100, Min(1000, frequency))
        /\ probe' = [op |-> "setBaseFrequency", arg |-> frequency]
        /\ UNCHANGED <<currentScale, programVars>>

\* a call of mapHueToFrequency(hue)
MapHue ==
    \E hue \in Hues :
        /\ probe' = [op |-> "mapHueToFrequency", arg |-> hue,
                     ret |-> mapHueToFrequency(currentScale, baseFrequency, hue)]
        /\ UNCHANGED <<mapperVars, programVars>>

\* the hues, saturations and values handed to mapHsvToAudio in this model
HsvHues == {0, 1, 59, 60, 119, 120, 180, 240, 300, 359}
Saturations == {0, 99, 100}
Values == {50, 100}

\* a call of mapHsvToAudio(hsv)
MapHsv ==
    \E h \in HsvHues, sat \in Saturations, v \in Values :
        LET hsv == [h |-> h, s |-> sat, v |-> v] IN
        /\ probe' = [op |-> "mapHsvToAudio", arg |-> hsv, ret |-> mapHsvToAudio(hsv)]
        /\ UNCHANGED <<mapperVars, programVars>>

NextMapper ==
    \/ SetScale
    \/ SetBaseFrequency
    \/ MapHue
    \/ MapHsv

SpecMapper == Init /\ [][NextMapper]_vars

\* --------------------------------------------- colour conversions, called
\* the channel values of this model: on them the quotients the code rounds are
\* no ties, so the double arithmetic of the code and exact arithmetic agree
ColourLevels == {0, 5, 100, 128, 200, 255}

\* hsvToRgb applied to the result of rgbToHsv(r, g, b)
RoundTrip ==
    \E r \in ColourLevels, g \in ColourLevels, b \in ColourLevels :
        LET hsv == rgbToHsv(r, g, b)
        IN /\ probe' = [op |-> "roundTrip", arg |-> [r |-> r, g |-> g, b |-> b],
                        hsv |-> hsv, ret |-> hsvToRgb(hsv.h, hsv.s, hsv.v)]
           /\ UNCHANGED <<mapperVars, programVars>>

\* the channel values handed to rgbToHsv alone: the ends of the range, their
\* neighbours and the middle; on them too the code's doubles round as exact
\* arithmetic does
HsvLevels == {0, 1, 2, 5, 100, 127, 128, 200, 254, 255}

\* a call of rgbToHsv(r, g, b)
ToHsv ==
    \E r \in HsvLevels, g \in HsvLevels, b \in HsvLevels :
        /\ probe' = [op |-> "rgbToHsv", arg |-> [r |-> r, g |-> g, b |-> b],
                     ret |-> rgbToHsv(r, g, b)]
        /\ UNCHANGED <<mapperVars, programVars>>

NextColour == RoundTrip \/ ToHsv

SpecColour == Init /\ [][NextColour]_vars

\* ----------------------------------------- the grid of a processed image
\* the cell sizes of this model: small cells, with partial last columns and rows
CellSizes == {10, 11, 13, 16}
\* the grid rows whose cells are read: the first two and the last two
ProbeRows(ps) == {0, 1, GridHeight(ps) - 2, GridHeight(ps) - 1}

\* an image was uploaded and the slider was moved to one of the cell sizes
InitCells ==
    /\ isInitialized = FALSE
    /\ reverb = "none"
    /\ synths = EmptyMap
    /\ scanSounds = {}
    /\ replaced = "no"
    /\ threw = FALSE
    /\ engineMode = "single"
    /\ canvasMode = "single"
    /\ canvasPlaying = FALSE
    /\ scanColumn = -1
    /\ canvasRemoved = FALSE
    /\ hoveredPixel = Null
    /\ appPlaying = FALSE
    /\ appMode = "single"
    /\ pendingInit = 0
    /\ originalImage \in OrigImages
    /\ hasImage = TRUE
    /\ pixelSize \in {ClampPixelSize(size) : size \in CellSizes}
    /\ currentPixelSize = pixelSize
    /\ imageWidth = DisplayWidth(originalImage)
    /\ imageHeight = DisplayHeight(originalImage)
    /\ currentScale = "pentatonic"
    /\ baseFrequency = 220
    /\ probe = NoCall
    /\ timers = << >>
    /\ events = 0

\* the entry of pixelData[gridY][gridX] is read, once in a run
ReadCell ==
    \E gridX \in 0..(GridWidth(pixelSize) - 1), gridY \in ProbeRows(pixelSize) :
        /\ probe = NoCall
        /\ probe' = [op |-> "pixelData", arg |-> [gridX |-> gridX, gridY |-> gridY],
                     ret |-> extractCell(imageWidth, imageHeight, pixelSize,
                                         gridX, gridY)]
        /\ UNCHANGED <<mapperVars, programVars>>

NextCells == ReadCell

SpecCells == InitCells /\ [][NextCells]_vars

\* ------------------------------------------------ direct calls of setPixelSize
\* the sizes passed: below, at and above both ends of the range
SizeInputs == {-5, 0, 9, 10, 11, 50, 99, 100, 101, 250}

\* pixelData of the current state: extracted with pixelSize once an image is in
currentPixelData == IF hasImage THEN extractPixelData(pixelSize) ELSE NoPixelData

\* a call of imageProcessor.setPixelSize(size)
CallSetPixelSize ==
    \E size \in SizeInputs :
        LET after == setPixelSize(originalImage, currentPixelData, size) IN
        /\ pixelSize' = after.pixelSize
        /\ probe' = [op |-> "setPixelSize", arg |-> size,
                     before |-> [pixelSize |-> pixelSize,
                                 pixelData |-> currentPixelData],
                     ret |-> after.pixelData]
        /\ UNCHANGED <<mapperVars, engineVars, canvasVars, appVars, originalImage,
                       hasImage, imageWidth, imageHeight, timers, events>>

NextResize == CallSetPixelSize

\* before and after an image was processed
SpecResize == (Init \/ InitCells) /\ [][NextResize]_vars

\* ------------------------------------------------- lookups in the grid
\* the coordinates looked up: around the first cell and around the last
ProbeXs(ps) == {-ps, -1, 0, ps - 1, ps, GridWidth(ps) * ps - 1, GridWidth(ps) * ps}
ProbeYs(ps) == {-ps, -1, 0, ps - 1, ps, GridHeight(ps) * ps - 1, GridHeight(ps) * ps}

\* a call of getPixelAt(x, y)
LookUp ==
    \E x \in ProbeXs(pixelSize), y \in ProbeYs(pixelSize) :
        /\ probe' = [op |-> "getPixelAt", arg |-> [x |-> x, y |-> y],
                     ret |-> getPixelAt(hasImage, pixelSize, x, y)]
        /\ UNCHANGED <<mapperVars, programVars>>

\* a call of getColumnPixels(x)
LookUpColumn ==
    \E x \in ProbeXs(pixelSize) :
        /\ probe' = [op |-> "getColumnPixels", arg |-> x,
                     ret |-> getColumnPixels(hasImage, pixelSize, x)]
        /\ UNCHANGED <<mapperVars, programVars>>

NextLookup == LookUp \/ LookUpColumn

\* before and after an image was processed
SpecLookup == (Init \/ InitCells) /\ [][NextLookup]_vars

\* ---------------------------------------------------------------- claims
ScanVoices == {k \in DOMAIN synths : k.kind = "scan"}
NoteVoices == {k \in DOMAIN synths : k.kind = "note"}
PoolUnchanged ==
    /\ synths' = synths
    /\ scanSounds' = scanSounds
    /\ threw' = threw

\* C1: in every reachable state the pool (AudioEngine.synths) holds at most
\* maxSynths = 5 live voices.
C1_PoolWithinCap == Cardinality(DOMAIN synths) <= maxSynths

\* C2: when the pointer moves from column c to another column, every sustained
\* voice of column c is stopped by the move, before any voice of the new column
\* starts: no voice of column c is live after the move handler.
C2_PreviousColumnStopped ==
    [][(MouseMoved /\ scanColumn >= 0 /\ scanColumn' # scanColumn)
          => \A k \in DOMAIN synths' : ~(k.kind = "scan" /\ k.a = scanColumn)]_vars

\* C3: a pointer release or exit while column c is active stops every sustained
\* voice started for column c and returns the controller to idle.
C3_ReleaseStopsColumn ==
    [][((MouseReleased \/ MouseExited) /\ scanColumn >= 0)
          => /\ scanColumn' = -1
             /\ \A k \in DOMAIN synths' : ~(k.kind = "scan" /\ k.a = scanColumn)]_vars

\* C4: a staggered onset scheduled for column c that fires when the active
\* column is no longer c starts no voice.
C4_StaleOnsetStartsNothing ==
    [][(OnsetFires /\ timers[FirstDue].pixel.gridX # scanColumn)
          => synths' = synths]_vars

\* C5: once playback is stopped, no deferred onset scheduled before the stop
\* starts a voice: while isPlaying is false the pool holds no sustained voice.
C5_StoppedMeansSilent == ~canvasPlaying => ScanVoices = {}

\* C6: after stopAllScanSounds() returns, synths and scanSounds are both empty.
StopAllCalled ==
    \/ TogglePlayback /\ appPlaying
    \/ InitDone /\ appPlaying
    \/ ModeChange /\ appMode' = "single"
C6_StopAllLeavesNothing ==
    [][StopAllCalled => (DOMAIN synths' = {} /\ scanSounds' = {})]_vars

\* C7: no synth is ever replaced in the pool without having been disposed:
\* startScanSound on a key in use stops the old voice before it creates the new.
C7_NoUndisposedReplacement == replaced # "undisposed"
\* a voice was restarted under a key that was in use
C7_Witness == replaced = "disposed"

\* C8: every voice created by playNote is eventually removed from the pool.
C8_NotesSelfRelease ==
    \A n \in 0..MaxEvents :
        (NoteKey(n) \in DOMAIN synths) ~> (NoteKey(n) \notin DOMAIN synths)
\* two playNote voices are live at once, under distinct keys
C8_Witness == Cardinality(NoteVoices) >= 2

\* C9: stopScanSound on a key with no live voice, a second stopScanSound on the
\* same key and a cleanup timer firing for an absent voice change nothing in
\* the pool and raise no error.
C9_StopsAreNoOps ==
    /\ [](\A k \in DOMAIN synths \cup scanSounds \cup {NumKey(scanColumn)} :
            /\ stopScanSound(stopScanSound(Pool, k), k) = stopScanSound(Pool, k)
            /\ (k \notin DOMAIN synths \cup scanSounds => stopScanSound(Pool, k) = Pool))
    /\ [][/\ (MouseReleased \/ MouseExited \/ (MouseMoved /\ scanColumn >= 0)) =>
                (synths' = synths /\ scanSounds' = scanSounds /\ threw' = threw)
          /\ (CleanupFires /\ NoteKey(timers[FirstDue].note) \notin DOMAIN synths) =>
                PoolUnchanged]_vars
\* the controller went idle by stopping the numeric key of a column whose
\* voices are live under their string keys
C9_Witness ==
    /\ canvasPlaying /\ canvasMode = "scan" /\ scanColumn = -1
    /\ \E k \in ScanVoices : k.a >= 0

\* C10: the batch of onsets one scan move schedules holds at most 5 voices, for
\* every column length the grid can have.
C10_BatchWithinCap == Cardinality(PendingOnsets) <= maxSimultaneousSounds

\* C11: when a column has more cells than the cap of 5, the cells one scan move
\* selects for sounding are exactly those whose row index is a multiple of
\* stride = ceil(count / 5).
C11_SelectedByCeilStride ==
    [][MouseMoved =>
          LET n == Len(getColumnPixels(hasImage, pixelSize, scanColumn' * pixelSize))
              stride == CeilDiv(n, maxSimultaneousSounds)
              batch == SubSeq(timers', Len(timers) + 1, Len(timers'))
          IN n > maxSimultaneousSounds =>
                {batch[j].index : j \in 1..Len(batch)}
                    = {i \in 0..(n - 1) : i % stride = 0}]_vars

\* C12: while isPlaying is false no pointer event (press, move, release, exit),
\* in either mode, plays a note or schedules or starts a sustained voice: it
\* changes nothing but the hovered cell.
PointerEvent == MousePressed \/ MouseMoved \/ MouseReleased \/ MouseExited
C12_InertWhenStopped ==
    [][(PointerEvent /\ ~canvasPlaying)
          => UNCHANGED <<engineVars, timers, canvasMode, canvasPlaying, scanColumn,
                         canvasRemoved, appVars, imageVars>>]_vars
\* the pointer hovers over a cell although playback was never started
C12_Witness == hoveredPixel # Null /\ ~isInitialized

\* C13: switching the mode to 'single' stops every sustained voice, and while
\* the mode stays 'single' the pool holds no sustained voice: a deferred onset
\* that was scheduled in scan mode and fires in single mode creates nothing.
C13_SingleModeHasNoScanVoice ==
    /\ [](engineMode = "single" => (ScanVoices = {} /\ scanSounds = {}))
    /\ [][(OnsetFires /\ engineMode = "single") => PoolUnchanged]_vars
\* the mode is 'single' while onsets of a scan batch are pending, and an onset
\* of that batch has fired already
C13_Witness ==
    /\ engineMode = "single"
    /\ PendingOnsets # {}
    /\ Cardinality(PendingOnsets) < maxSimultaneousSounds

\* C14: AudioEngine.dispose() removes every live voice from the pool and
\* releases the shared gain / reverb stage, and a second dispose() releases
\* nothing a second time.
C14_DisposeIdempotent ==
    [][Dispose => (DOMAIN synths' = {} /\ reverb' # "disposedAgain")]_vars

\* C15: the frequency, volume, attack, release and waveform of every voice in
\* the pool are the values HsvMapper.mapHsvToAudio returns for the voice's hsv.
C15_PoolUsesMapper ==
    \A k \in DOMAIN synths :
        LET voice == synths[k]
            audio == mapHsvToAudio(voice.hsv)
        IN /\ voice.frequency = audio.frequency
           /\ voice.volume = audio.volume
           /\ voice.synth.attack = audio.attack
           /\ voice.synth.release = audio.release
           /\ voice.synth.oscillator = audio.waveform

\* the semitone offsets of a scale, and f = base * 2^(k/12) for an integer k
\* whose residue modulo 12 is one of them
Offsets(scaleName) ==
    IF scaleName \notin DOMAIN musicalScales THEN {}
    ELSE {musicalScales[scaleName][i] : i \in 1..Len(musicalScales[scaleName])}
IsPitch(base, k, f) ==
    LET ratio == base * SemitoneRatio[(k % 12) + 1]
        octaves == k \div 12
    IN IF octaves >= 0
       THEN f % Pow2(octaves) = 0 /\ f \div Pow2(octaves) = ratio
       ELSE ratio % Pow2(-octaves) = 0 /\ ratio \div Pow2(-octaves) = f
InScale(scaleName, base, f) ==
    \E k \in -48..59 : (k % 12) \in Offsets(scaleName) /\ IsPitch(base, k, f)

\* C16: for every hue in [0,360), every scale and every base frequency that
\* setBaseFrequency can leave configured, mapHueToFrequency(hue) lies within
\* [200, 2000] Hz and is base * 2^(k/12) for an integer k whose residue modulo
\* 12 is a semitone offset of the active scale.
C16_FrequencyInWindowAndScale ==
    (probe.op = "mapHueToFrequency" /\ currentScale \in DOMAIN musicalScales) =>
        /\ probe.ret >= 200 * FreqUnit /\ probe.ret <= 2000 * FreqUnit
        /\ InScale(currentScale, baseFrequency, probe.ret)

Abs(x) == IF x < 0 THEN -x ELSE x

\* C17: for all integers r, g, b in [0,255], hsvToRgb applied to
\* rgbToHsv(r, g, b) reproduces each of the three channels within 1.
C17_RoundTripWithinOne ==
    probe.op = "roundTrip" =>
        /\ Abs(probe.ret.r - probe.arg.r) <= 1
        /\ Abs(probe.ret.g - probe.arg.g) <= 1
        /\ Abs(probe.ret.b - probe.arg.b) <= 1

\* C18: after an image of W x H pixels is processed with cell size C the grid
\* has ceil(W / C) columns and ceil(H / C) rows (100 x 100 with C = 50: 2 x 2).
C18_GridFollowsImage ==
    hasImage =>
        /\ GridWidth(pixelSize) = CeilDiv(originalImage[1], pixelSize)
        /\ GridHeight(pixelSize) = CeilDiv(originalImage[2], pixelSize)

\* the sum of f over a finite set, and the rounded mean of a channel over the
\* source pixels of a cell's bounds, clamped to the raster
RECURSIVE SetSum(_, _)
SetSum(f, S) ==
    IF S = {} THEN 0
    ELSE LET e == CHOOSE x \in S : TRUE IN f[e] + SetSum(f, S \ {e})
CellColumns(gridX) == gridX * pixelSize .. Min((gridX + 1) * pixelSize, canvasWidth) - 1
CellRows(gridY) == gridY * pixelSize .. Min((gridY + 1) * pixelSize, canvasHeight) - 1
ChannelMean(c, gridX, gridY) ==
    LET Xs == CellColumns(gridX)
        Ys == CellRows(gridY)
        row(y) == SetSum([x \in Xs |-> drawnPixel(imageWidth, imageHeight, x, y)[c]], Xs)
    IN Round(SetSum([y \in Ys |-> row(y)], Ys), Cardinality(Xs) * Cardinality(Ys))

C20_LookupByFloor ==
    probe.op = "getPixelAt" =>
        LET gridX == probe.arg.x \div pixelSize
            gridY == probe.arg.y \div pixelSize
            inside == /\ hasImage
                      /\ gridX \in 0..(GridWidth(pixelSize) - 1)
                      /\ gridY \in 0..(GridHeight(pixelSize) - 1)
        IN IF inside
           THEN /\ probe.ret.gridX = gridX /\ probe.ret.gridY = gridY
                /\ probe.ret.hsv = CellHsv(pixelSize, gridX, gridY)
           ELSE probe.ret = Null
\* with an image processed, a coordinate above the grid was looked up
C20_Witness ==
    /\ probe.op = "getPixelAt"
    /\ hasImage
    /\ probe.arg.y < 0 /\ probe.arg.x >= 0
    /\ probe.ret = Null

\* C21: getColumnPixels(x) returns exactly the cells whose column index is
\* floor(x / pixelSize), one per grid row, ordered top to bottom; it returns
\* an empty sequence when that column is outside the grid or when no image
\* has been processed.
C21_ColumnByFloor ==
    probe.op = "getColumnPixels" =>
        LET gridX == probe.arg \div pixelSize
            inside == hasImage /\ gridX \in 0..(GridWidth(pixelSize) - 1)
        IN IF inside
           THEN /\ Len(probe.ret) = GridHeight(pixelSize)
                /\ \A i \in 1..Len(probe.ret) :
                      /\ probe.ret[i].gridX = gridX
                      /\ probe.ret[i].gridY = i - 1
                      /\ probe.ret[i].hsv = CellHsv(pixelSize, gridX, i - 1)
           ELSE probe.ret = << >>
\* with an image processed, the last column of the grid was asked for and came
\* back whole
C21_Witness ==
    /\ probe.op = "getColumnPixels"
    /\ hasImage
    /\ probe.arg = GridWidth(pixelSize) * pixelSize - 1
    /\ Len(probe.ret) = GridHeight(pixelSize)

\* the pixelX, pixelY of every entry of a pixelData
CellOrigins(data) ==
    {cellOrigin(data, gridX, gridY) :
        gridX \in 0..(data.columns - 1), gridY \in 0..(data.rows - 1)}
\* after setPixelSize(size): pixelSize is the clamped size, every cell's pixelX
\* and pixelY are multiples of it, and with an image the grid covers the canvas
ClampedAndRebuilt ==
    probe.op = "setPixelSize" =>
        /\ pixelSize = Min(100, Max(10, probe.arg))
        /\ \A cell \in CellOrigins(probe.ret) :
              cell.pixelX % pixelSize = 0 /\ cell.pixelY % pixelSize = 0
        /\ originalImage # << >> =>
              /\ probe.ret.rows = CeilDiv(canvasHeight, pixelSize)
              /\ probe.ret.columns = CeilDiv(canvasWidth, pixelSize)
\* C22: setPixelSize(size) for any integer size leaves pixelSize =
\* min(100, max(10, size)); when an image is loaded the whole grid is rebuilt
\* in the same call, so afterwards every cell's pixelX and pixelY are multiples
\* of the new pixelSize; when no image is loaded the call is a no-op: it
\* changes nothing, pixelSize included.
C22_SetPixelSize ==
    /\ ClampedAndRebuilt
    /\ (probe.op = "setPixelSize" /\ originalImage = << >>) =>
          /\ pixelSize = probe.before.pixelSize
          /\ probe.ret = probe.before.pixelData
\* C22 as the code has it: without an image the call still stores the clamped
\* size, and only the grid stays as it was (empty)
C22_SetPixelSizeStoresSize ==
    /\ ClampedAndRebuilt
    /\ (probe.op = "setPixelSize" /\ originalImage = << >>) =>
          probe.ret = probe.before.pixelData /\ probe.ret = NoPixelData
\* with an image loaded, a size above the range was passed while the grid had
\* cells of another size
C22_Witness ==
    /\ probe.op = "setPixelSize"
    /\ originalImage # << >>
    /\ probe.arg > maxPixelSize
    /\ probe.before.pixelData.cellSize \notin {0, pixelSize}
    /\ probe.ret.cellSize = maxPixelSize

\* C23: setScale(name) with a name that is not one of the known scales
\* (chromatic, major, minor, pentatonic, blues) leaves currentScale unchanged
\* and raises no error; with a known name it sets currentScale to that name.
KnownScales == {"chromatic", "major", "minor", "pentatonic", "blues"}
C23_UnknownScaleIgnored ==
    [][SetScale =>
         IF probe'.arg \in KnownScales
         THEN currentScale' = probe'.arg
         ELSE currentScale' = currentScale]_vars

\* C24: setBaseFrequency(f) with f outside the accepted bound (below 100 Hz or
\* above 1000 Hz) is ignored: baseFrequency keeps the value it had before the
\* call.
C24_OutOfBoundBaseIgnored ==
    [][(SetBaseFrequency /\ (probe'.arg < 100 \/ probe'.arg > 1000)) =>
         baseFrequency' = baseFrequency]_vars

C26_FailedInitMakesNoOps ==
    /\ [][InitDone => isInitialized']_vars
    /\ []((isInitialized /\ reverb = "none") => (DOMAIN synths = {} /\ ~threw))

\* C27: for every hue h, mapHsvToAudio({h, s:100, v:100}) returns the shortest
\* configured attack (attackRange.min = 0.01 s), the richest waveform class
\* ('square', the last of the four) and the maximum configured volume
\* (volumeRange.max = 0.8).
C27_FullColourIsSharpest ==
    (probe.op = "mapHsvToAudio" /\ probe.arg.s = 100 /\ probe.arg.v = 100) =>
        /\ probe.ret.attack = attackRange.min /\ probe.ret.attack = 10000
        /\ probe.ret.waveform = "square" /\ probe.ret.waveform = waveforms[4]
        /\ probe.ret.volume = volumeRange.max /\ probe.ret.volume = 800
\* the call was made for a full colour under a scale and a base frequency
\* other than the defaults
C27_Witness ==
    /\ probe.op = "mapHsvToAudio"
    /\ probe.arg = [h |-> 359, s |-> 100, v |-> 100]
    /\ currentScale = "blues" /\ baseFrequency = 440
    /\ probe.ret.waveform = "square"

\* C28: for all integers r, g, b in [0,255], rgbToHsv returns an integer hue h
\* with 0 <= h < 360 (negative intermediate hues wrap by +360, and 360 itself
\* is never returned), a saturation in [0,100] that is 0 when max = 0, and a
\* value in [0,100].
C28_HsvInRange ==
    probe.op = "rgbToHsv" =>
        /\ probe.ret.h \in 0..359
        /\ probe.ret.s \in 0..100
        /\ Max3(probe.arg.r, probe.arg.g, probe.arg.b) = 0 => probe.ret.s = 0
        /\ probe.ret.v \in 0..100
        /\ (probe.arg.r > probe.arg.b /\ probe.arg.b > probe.arg.g) =>
              probe.ret.h = 0 \/ probe.ret.h >= 300
\* a red with a trace of blue: the hue is negative before rounding, closer to
\* 0 than to -1, and comes out as 0
C28_Witness ==
    /\ probe.op = "rgbToHsv"
    /\ probe.arg = [r |-> 255, g |-> 0, b |-> 1]
    /\ probe.ret = [h |-> 0, s |-> 100, v |-> 100]

\* C29: the attack time the audio engine gives a voice (AudioEngine.hsvToAttack)
\* gets shorter as saturation gets higher: for saturations s1 < s2 in [0,100],
\* hsvToAttack(s2) < hsvToAttack(s1); so of two voices in the pool the one of
\* the more saturated cell has the shorter attack.
C29_AttackFallsWithSaturation ==
    \A k1 \in DOMAIN synths, k2 \in DOMAIN synths :
        synths[k1].hsv.s < synths[k2].hsv.s =>
            synths[k2].synth.attack < synths[k1].synth.attack

\* C30: playNote(hsv) with no duration argument uses a duration of
\* 0.1 + 0.3 * (100 - v) / 100 seconds, which lies in [0.1, 0.4] and decreases
\* as v grows; playNote(hsv, d) with any explicitly supplied duration d uses d
\* (and schedules cleanup d*1000 + 500 ms later) instead of the
\* brightness-derived value.
C30_DurationDerivedOrGiven ==
    [][(CallPlayNote /\ probe'.played # << >>) =>
         LET v == probe'.arg.hsv.v
             d == probe'.arg.duration
             used == probe'.played[1]
         IN IF d = NoDuration
            THEN /\ used = 100 + (300 * (100 - v)) \div 100
                 /\ used \in 100..400
                 /\ \A v2 \in 0..100 : v2 > v => NoteDurationMs(v2) < used
            ELSE /\ used = d
                 /\ Len(timers') = Len(timers) + 1
                 /\ timers'[Len(timers')].kind = "cleanup"
                 /\ timers'[Len(timers')].rem = d + 500]_vars

\* C31: within one scan batch, the k-th selected cell (k = 0, 1, 2, ... counted
\* top to bottom) has its onset scheduled k * 50 ms after the pointer move, so
\* the voices of a batch start in top-to-bottom order and none starts
\* synchronously inside the move handler.
C31_StaggeredTopToBottom ==
    /\ [][MouseMoved =>
            LET batch == SubSeq(timers', Len(timers) + 1, Len(timers'))
            IN /\ \A k \in 1..Len(batch) :
                     /\ batch[k].kind = "onset"
                     /\ batch[k].rem = (k - 1) * 50
                     /\ k > 1 => batch[k - 1].index < batch[k].index
               /\ DOMAIN synths' \subseteq DOMAIN synths]_vars
    /\ [][OnsetFires =>
            \A j \in 1..Len(timers') : timers[FirstDue].index < timers'[j].index]_vars
\* the first voices of a batch of five have started and the rest is pending
C31_Witness ==
    /\ Cardinality(ScanVoices) = 2
    /\ Cardinality(PendingOnsets) = 3
    /\ pixelSize < defaultPixelSize

\* C32: the scan controller is always in one of the two states idle or
\* scanning(column): in every reachable state scanColumn is either -1 or the
\* index of an existing grid column (0 <= scanColumn < grid width), for every
\* pointer x-coordinate delivered to the move handler.
C32_IdleOrScanningColumn ==
    scanColumn = -1 \/ scanColumn \in 0..(GridWidth(pixelSize) - 1)

\* C33: every sustained voice stored under a key '<c>_<i>' was created from the
\* hsv of the grid cell at column c, row i: the key and the sound of a voice
\* always refer to the same cell, also when the pointer changes column (or
\* releases) between the scheduling and the firing of a staggered onset.
C33_KeyAndSoundSameCell ==
    [][OnsetFires =>
         \A k \in DOMAIN synths' :
             (k \notin DOMAIN synths \/ synths'[k] # synths[k]) =>
                 /\ k.a = timers[FirstDue].pixel.gridX
                 /\ k.b = timers[FirstDue].pixel.gridY
                 /\ synths'[k].hsv = timers[FirstDue].pixel.hsv]_vars

\* C34: over any interleaving of togglePlayback invocations, including a second
\* invocation that arrives while the first is still awaiting the audio start,
\* AudioEngine.init runs at most once, so at most one master gain and one
\* reverb stage are ever created: init is never entered while an earlier init
\* is pending or done.
C34_InitAtMostOnce ==
    /\ [][ToggleAwaitInit => (pendingInit = 0 /\ ~isInitialized)]_vars
    /\ [](pendingInit <= 1)

\* C35: in every reachable state, every key of AudioEngine.scanSounds is also a
\* key of AudioEngine.synths (each sustained-voice handle has a live pool
\* entry), after any sequence of startScanSound, stopScanSound,
\* stopAllScanSounds, playNote, timer firings and dispose.
C35_ScanSoundsInPool == scanSounds \subseteq DOMAIN synths

\* C36: between event handlers, the mode held by the application, by the
\* interaction controller and by the audio engine are equal, after any sequence
\* of mode changes (select change or Ctrl/Cmd+M toggle) starting from the
\* initial state where all three are 'single'.
C36_ThreeModesEqual == appMode = canvasMode /\ canvasMode = engineMode
\* all three hold 'scan' while a sustained voice is live
C36_Witness ==
    /\ appMode = "scan" /\ canvasMode = "scan" /\ engineMode = "scan"
    /\ ScanVoices # {}
    /\ scanColumn >= 0

\* C37: whenever an image is loaded, the application's currentPixelSize (the
\* slider value shown to the user) equals ImageProcessor.pixelSize, the cell
\* size the grid was built with, after any sequence of slider changes and
\* image uploads in any order.
C37_SliderMatchesGrid == hasImage => currentPixelSize = pixelSize

\* C38: whenever the interaction controller's isPlaying flag is true, the
\* audio engine's isInitialized flag is true, for any interleaving of
\* togglePlayback invocations and init completions.
C38_PlayingImpliesInitialized == canvasPlaying => isInitialized

\* C38 witness: the canvas is playing while a second togglePlayback is still
\* waiting for its init() to complete.
C38_Witness == canvasPlaying /\ isInitialized /\ pendingInit > 0

\* the comparison a < b of two numbers, false when either is NaN
Lower(a, b) == a # NaN /\ b # NaN /\ a < b

\* C39: for every selectable scale and every base frequency,
\* mapHueToFrequency is monotonically non-decreasing in hue over [0,360): a
\* larger hue never maps to a lower frequency.
C39_FrequencyRisesWithHue ==
    probe.op = "mapHueToFrequency" =>
        \A larger \in Hues :
            larger > probe.arg =>
                ~Lower(mapHueToFrequency(currentScale, baseFrequency, larger), probe.ret)

\* C39 witness: a hue just below an octave border of a scale other than the
\* default was mapped, and the next hue maps to a higher frequency.
C39_Witness ==
    /\ probe.op = "mapHueToFrequency"
    /\ probe.arg = 119
    /\ currentScale = "blues"
    /\ Lower(probe.ret, mapHueToFrequency(currentScale, baseFrequency, 120))

====
